---- MODULE Spec2Model ----
(***************************************************************************)
(* Model of moleculardynamics::Ar_moleculardynamics                        *)
(* (src/moleculardynamics/Ar_moleculardynamics.cpp).                       *)
(*                                                                         *)
(* Numbers.  The source computes in double.  The model computes in         *)
(* fixed point on integer grids, one grid per kind of quantity:            *)
(*   lengths     in grid cells; the Lennard-Jones sigma is SigmaGrid cells *)
(*   time        in units of the time step, so DT is 1                     *)
(*   velocities  in 1/VQ cells per step                                    *)
(*   forces      in 1/FQ cells per step^2                                  *)
(*   the thermostat factor s in 1/SQ                                       *)
(*   r^-6 and r^-12 in 1/RQ6                                               *)
(* A division rounds toward zero (TDiv), std::sqrt is the integer square   *)
(* root (ISqrt): every result is rounded to its grid, as every result in   *)
(* double is rounded to a double.  atoms_[n].r and atoms_[n].p are never   *)
(* accessed by the source and are not modelled.                            *)
(***************************************************************************)
EXTENDS Integers, Sequences, FiniteSets, TLC

(* ------------------------------ bounds -------------------------------- *)

\* setNc draws Nc from 1..MaxNc
MaxNc == 2
\* the supercell size the model is constructed with (the source's FIRSTNC
\* is 4, i.e. 256 atoms; the model starts from a supercell it can step)
FIRSTNC == 1
\* setScale draws scale from 1..MaxScale
MaxScale == 2
\* setEnsemble draws from 0..MaxEnsemble; 0 is NVE, 1 is NVT, the rest are
\* values of the underlying std::int32_t that name no enumerator
MaxEnsemble == 2
\* setTgiven draws from TgivenOf(1) .. TgivenOf(MaxTk)
MaxTk == 2
\* each MyRand is seeded with one of 1..MaxSeed
MaxSeed == 1
\* runCalc is explored while MD_iter_ <= MaxIter
MaxIter == 2
\* runCalc is explored while NumAtom_ <= MaxStepAtoms
MaxStepAtoms == 4
\* number of TBB worker threads
NWorkers == 2
\* a blocked_range is split in halves at most MaxSplit times
MaxSplit == 1
\* an uninitialised Eigen lane holds one of 0..MaxGarbage
MaxGarbage == 0
\* runCalc is explored MaxRuns times in a behaviour
MaxRuns == 3
\* the mutators are called MaxSets times in a behaviour
MaxSets == 2

(* -------------------------- program constants ------------------------- *)

NVE == 0
NVT == 1
FIRSTSCALE == 1
ALPHA_NUM == 1
ALPHA_DEN == 5
DT == 1
dt2 == DT * DT
ncp_ == 3
KB == 1
YPSILON == 120

(* --------------------------- fixed-point grids ------------------------ *)

\* grid cells per sigma
SigmaGrid == 2
\* r^-6 and r^-12 are kept in 1/RQ6
RQ6 == 512
\* s is kept in 1/SQ
SQ == 16
\* velocities are kept in 1/VQ cells per step
VQ == 100
\* forces are kept in 1/(FV VQ) cells per step^2
FV == 8192

(* ----------------------------- arithmetic ----------------------------- *)

TDiv(a, b) == IF a >= 0 THEN a \div b ELSE -((-a) \div b)

RECURSIVE SqrtSearch(_, _, _)
SqrtSearch(x, lo, hi) ==
    IF lo >= hi THEN lo
    ELSE LET mid == (lo + hi + 1) \div 2
         IN  IF mid * mid <= x THEN SqrtSearch(x, mid, hi)
                               ELSE SqrtSearch(x, lo, mid - 1)

ISqrt(x) == SqrtSearch(x, 0, IF x < 46340 THEN x ELSE 46340)

FQ == FV * VQ

(* ------------------------------ vectors ------------------------------- *)

\* Eigen::Vector4d: four lanes, the source keeps the fourth at 0.0
Zero4 == <<0, 0, 0, 0>>
VAdd(a, b) == <<a[1] + b[1], a[2] + b[2], a[3] + b[3], a[4] + b[4]>>
VSub(a, b) == <<a[1] - b[1], a[2] - b[2], a[3] - b[3], a[4] - b[4]>>
VMul(k, a) == <<k * a[1], k * a[2], k * a[3], k * a[4]>>
VDivT(a, k) == <<TDiv(a[1], k), TDiv(a[2], k), TDiv(a[3], k), TDiv(a[4], k)>>
squaredNorm(a) == a[1] * a[1] + a[2] * a[2] + a[3] * a[3] + a[4] * a[4]

RECURSIVE SumRange(_, _, _)
\* sum of f[lo] .. f[hi] of a sequence of integers
SumRange(f, lo, hi) ==
    IF lo > hi THEN 0
    ELSE IF lo = hi THEN f[lo]
    ELSE LET mid == (lo + hi) \div 2
         IN  SumRange(f, lo, mid) + SumRange(f, mid + 1, hi)

\* sum of f[1] .. f[n]
SumTo(f, n) == SumRange(f, 1, n)

RECURSIVE VSumRange(_, _, _)
\* sum of the vectors f[lo] .. f[hi]
VSumRange(f, lo, hi) ==
    IF lo > hi THEN Zero4
    ELSE IF lo = hi THEN f[lo]
    ELSE LET mid == (lo + hi) \div 2
         IN  VAdd(VSumRange(f, lo, mid), VSumRange(f, mid + 1, hi))

\* sum of the vectors f[1] .. f[n]
VSumTo(f, n) == VSumRange(f, 1, n)

(* ------------------------- the random source -------------------------- *)

\* myrandom::MyRand(-1.0, 1.0): the c-th call (c = 0, 1, ...) of a generator
\* seeded with sd returns a sample of [-1, 1] in halves (-2 .. 2).  The
\* three samples of an atom have a norm that is not zero and is on the grid.
MyRandSamples == <<2, -1, 1, -2>>
myrand(sd, c) ==
    LET p == c \div 3
    IN  IF c % 3 = (p + sd) % 3 THEN MyRandSamples[((p * sd) % 4) + 1] ELSE 0

(* --------------------------- initialization --------------------------- *)

\* std::pow(2.0, 2.0 / 3.0) sigma, on the length grid and rounded to a
\* multiple of 4 cells (0.5 * lat_ and the centroid are then on the grid)
LAT0 == 4

\* a resize that only ever grows the vector
resizeGrow(seq, n, fill) ==
    [i \in 1..(IF n > Len(seq) THEN n ELSE Len(seq)) |->
       IF i <= Len(seq) THEN seq[i] ELSE fill]

\* std::vector::resize(n): keeps the first n elements, appends fill
resize(seq, n, fill) ==
    [i \in 1..n |-> IF i <= Len(seq) THEN seq[i] ELSE fill]

\* an Atom the vector default-constructs: Eigen leaves the lanes unset
NewAtom(g) ==
    [f |-> <<g, g, g, g>>, r1 |-> <<g, g, g, g>>, v |-> <<g, g, g, g>>]

\* the lattice site written to index n (0-based) by the loops of MD_initPos
LatticeSite(n, Nc, lat) ==
    LET cell == n \div 4
        b == n % 4
        i == cell \div (Nc * Nc)
        j == (cell \div Nc) % Nc
        k == cell % Nc
        sx == i * lat
        sy == j * lat
        sz == k * lat
        h == TDiv(lat, 2)
    IN  CASE b = 0 -> <<sx, sy, sz>>
          [] b = 1 -> <<h + sx, h + sy, sz>>
          [] b = 2 -> <<sx, h + sy, h + sz>>
          [] OTHER -> <<h + sx, sy, h + sz>>

\* MD_initPos: writes the 4 Nc^3 sites into X, Y, Z, counts them into NumAtom
\* and moves the centroid to the origin
MD_initPos(X, Y, Z, Nc, lat) ==
    LET n == 4 * Nc * Nc * Nc
        put(A, c) == [m \in 1..Len(A) |->
                        IF m <= n THEN LatticeSite(m - 1, Nc, lat)[c] ELSE A[m]]
        X1 == put(X, 1)
        Y1 == put(Y, 2)
        Z1 == put(Z, 3)
        sx == TDiv(SumTo(X1, n), n)
        sy == TDiv(SumTo(Y1, n), n)
        sz == TDiv(SumTo(Z1, n), n)
        shift(A, d) == [m \in 1..Len(A) |-> IF m <= n THEN A[m] - d ELSE A[m]]
    IN  [X |-> shift(X1, sx), Y |-> shift(Y1, sy), Z |-> shift(Z1, sz),
         NumAtom |-> n]

\* an MD_initVel that leaves the mean velocity in
MD_initVelDrift(atoms, NumAtom, Tg, sd) ==
    LET v == ISqrt(3 * Tg)
        rnd(n) == <<myrand(sd, 3 * n), myrand(sd, 3 * n + 1),
                    myrand(sd, 3 * n + 2), 0>>
        dir(n) == LET norm == ISqrt(squaredNorm(rnd(n)))
                  IN  VDivT(rnd(n), norm)
    IN  [m \in 1..Len(atoms) |->
           IF m <= NumAtom THEN [atoms[m] EXCEPT !.v = VMul(v, dir(m - 1))]
                           ELSE atoms[m]]

\* MD_initVel: speed sqrt(3 Tg) in a drawn direction, then the mean velocity
\* is subtracted
MD_initVel(atoms, NumAtom, Tg, sd) ==
    LET v == ISqrt(3 * Tg)
        rnd(n) == <<myrand(sd, 3 * n), myrand(sd, 3 * n + 1),
                    myrand(sd, 3 * n + 2), 0>>
        dir(n) == LET norm == ISqrt(squaredNorm(rnd(n)))
                  IN  VDivT(rnd(n), norm)
        a1 == [m \in 1..Len(atoms) |->
                 IF m <= NumAtom THEN [atoms[m] EXCEPT !.v = VMul(v, dir(m - 1))]
                                 ELSE atoms[m]]
        vs == [m \in 1..NumAtom |-> a1[m].v]
        s == VDivT(VSumTo(vs, NumAtom), NumAtom)
    IN  [m \in 1..Len(a1) |->
           IF m <= NumAtom THEN [a1[m] EXCEPT !.v = VSub(a1[m].v, s)] ELSE a1[m]]

\* setTgiven's and the constructor's conversion from Kelvin
ToTg(Tgiven) == TDiv(Tgiven * KB, YPSILON)

\* the k-th temperature (in Kelvin) the model draws: the speed sqrt(3 Tg) is
\* about 3 k cells per step
TgivenOf(k) == (YPSILON * 3 * VQ * VQ * k * k) \div KB
FIRSTTEMP == TgivenOf(1)

(* ---------------------------- the force law --------------------------- *)

\* the cutoff radius 2.5 sigma and the members the constructor derives from it
rc_ == (5 * SigmaGrid) \div 2
rc2_ == rc_ * rc_
SIG6 == SigmaGrid * SigmaGrid * SigmaGrid * SigmaGrid * SigmaGrid * SigmaGrid
rcm6_ == TDiv(SIG6 * RQ6, rc2_ * rc2_ * rc2_)
rcm12_ == TDiv(rcm6_ * rcm6_, RQ6)
Vrc_ == 4 * (rcm12_ - rcm6_)

Zero5 == <<0, 0, 0, 0, 0>>
Add5(a, b) == <<a[1] + b[1], a[2] + b[2], a[3] + b[3], a[4] + b[4], a[5] + b[5]>>

\* the innermost block of calcForces for atoms n, m and the image (i, j, k):
\* <<force x, force y, force z, potential energy, virial>> it adds.
\* dx / r * Fr is computed as dx * (48 rm12 - 24 rm6) / r2, and r * Fr as
\* 48 rm12 - 24 rm6, which needs no square root.
PairTerm(X, Y, Z, L, n, m, i, j, k) ==
    LET sx == i * L
        sy == j * L
        sz == k * L
    IN  IF n # m \/ i # 0 \/ j # 0 \/ k # 0
        THEN LET dx == X[n] - (X[m] + sx)
                 dy == Y[n] - (Y[m] + sy)
                 dz == Z[n] - (Z[m] + sz)
                 r2 == dx * dx + dy * dy + dz * dz
             IN  IF r2 <= rc2_
                 THEN LET rm6 == TDiv(SIG6 * RQ6, r2 * r2 * r2)
                          rm12 == TDiv(rm6 * rm6, RQ6)
                          rFr == 48 * rm12 - 24 * rm6
                      IN  <<TDiv(dx * rFr, r2), TDiv(dy * rFr, r2),
                            TDiv(dz * rFr, r2),
                            TDiv(4 * (rm12 - rm6) - Vrc_, 2),
                            TDiv(rFr, 2)>>
                 ELSE Zero5
        ELSE Zero5

\* an image whose offset along one axis alone exceeds the cutoff adds
\* nothing (r2 > rc2_): the loops below skip it without forming the term
Far(d) == d * d > rc2_

RECURSIVE SumK(_, _, _, _, _, _, _, _, _)
\* for (k = -ncp_; k <= ncp_; k++)
SumK(X, Y, Z, L, n, m, i, j, k) ==
    IF k > ncp_ THEN Zero5
    ELSE IF Far(Z[n] - (Z[m] + k * L))
         THEN SumK(X, Y, Z, L, n, m, i, j, k + 1)
         ELSE Add5(PairTerm(X, Y, Z, L, n, m, i, j, k),
                   SumK(X, Y, Z, L, n, m, i, j, k + 1))

RECURSIVE SumJ(_, _, _, _, _, _, _, _)
\* for (j = -ncp_; j <= ncp_; j++)
SumJ(X, Y, Z, L, n, m, i, j) ==
    IF j > ncp_ THEN Zero5
    ELSE IF Far(Y[n] - (Y[m] + j * L))
         THEN SumJ(X, Y, Z, L, n, m, i, j + 1)
         ELSE Add5(SumK(X, Y, Z, L, n, m, i, j, -ncp_),
                   SumJ(X, Y, Z, L, n, m, i, j + 1))

RECURSIVE SumI(_, _, _, _, _, _, _)
\* for (i = -ncp_; i <= ncp_; i++)
SumI(X, Y, Z, L, n, m, i) ==
    IF i > ncp_ THEN Zero5
    ELSE IF Far(X[n] - (X[m] + i * L))
         THEN SumI(X, Y, Z, L, n, m, i + 1)
         ELSE Add5(SumJ(X, Y, Z, L, n, m, i, -ncp_),
                   SumI(X, Y, Z, L, n, m, i + 1))

RECURSIVE SumM(_, _, _, _, _, _, _)
\* for (m = 0; m < NumAtom_; m++)
SumM(X, Y, Z, L, NumAtom, n, m) ==
    IF m > NumAtom THEN Zero5
    ELSE Add5(SumI(X, Y, Z, L, n, m, -ncp_),
              SumM(X, Y, Z, L, NumAtom, n, m + 1))

\* two atoms, or an atom and an image of another, are on the same grid point:
\* r is 0.0, the source divides by it and the forces are not numbers
Meets(d, L) == \E i \in -ncp_..ncp_ : d = i * L
Coincide(X, Y, Z, L, NumAtom) ==
    \E n \in 1..NumAtom, m \in 1..NumAtom :
        /\ n < m
        /\ Meets(X[n] - X[m], L)
        /\ Meets(Y[n] - Y[m], L)
        /\ Meets(Z[n] - Z[m], L)

\* one iteration of the loop over n in the lambda of calcForces: what it adds
\* to atoms_[n].f, Up.local() and virial.local()
ForceBody(X, Y, Z, L, NumAtom, n) == SumM(X, Y, Z, L, NumAtom, n, 1)

(* ---------------------------- the integrator -------------------------- *)

\* s = sqrt((Tg + ALPHA (Tc - Tg)) / Tc), in 1/SQ
SFactor(Tg, Tc, an, ad) ==
    ISqrt(TDiv((Tg + TDiv(an * (Tc - Tg), ad)) * SQ * SQ, Tc))

\* an Euler iteration that stores r1 after it has moved the particle
EulerBodyR1After(X, Y, Z, atoms, s, n) ==
    LET a == atoms[n]
        v1 == VDivT(VMul(s, a.v), SQ)
        Xn == X[n] + TDiv(DT * v1[1], VQ) + TDiv(a.f[1] * dt2, 2 * FQ)
        Yn == Y[n] + TDiv(DT * v1[2], VQ) + TDiv(a.f[2] * dt2, 2 * FQ)
        Zn == Z[n] + TDiv(DT * v1[3], VQ) + TDiv(a.f[3] * dt2, 2 * FQ)
    IN  [X |-> Xn, Y |-> Yn, Z |-> Zn,
         atom |-> [f |-> a.f,
                   r1 |-> <<Xn, Yn, Zn, 0>>,
                   v |-> VAdd(v1, VDivT(VMul(DT, a.f), FV))],
         assert |-> FALSE,
         branch |-> "Euler"]

\* one iteration of the loop over n in the lambda of case 1 of moveAtoms
EulerBody(X, Y, Z, atoms, s, n) ==
    LET a == atoms[n]
        v1 == VDivT(VMul(s, a.v), SQ)
    IN  [X |-> X[n] + TDiv(DT * v1[1], VQ) + TDiv(a.f[1] * dt2, 2 * FQ),
         Y |-> Y[n] + TDiv(DT * v1[2], VQ) + TDiv(a.f[2] * dt2, 2 * FQ),
         Z |-> Z[n] + TDiv(DT * v1[3], VQ) + TDiv(a.f[3] * dt2, 2 * FQ),
         atom |-> [f |-> a.f,
                   r1 |-> <<X[n], Y[n], Z[n], 0>>,
                   v |-> VAdd(v1, VDivT(VMul(DT, a.f), FV))],
         assert |-> FALSE,
         branch |-> "Euler"]

\* one iteration of the loop over n in the lambda of the default case of
\* moveAtoms; assert is TRUE when it reaches BOOST_ASSERT
VerletBody(X, Y, Z, atoms, s, ensemble, n) ==
    LET a == atoms[n]
        rtmp == <<X[n], Y[n], Z[n], 0>>
        new(c) ==
            CASE ensemble = NVE ->
                   2 * rtmp[c] - a.r1[c] + TDiv(a.f[c] * dt2, FQ)
              [] ensemble = NVT ->
                   rtmp[c] + TDiv(s * (rtmp[c] - a.r1[c]), SQ)
                           + TDiv(a.f[c] * dt2, FQ)
              [] OTHER -> rtmp[c]
        Xn == new(1)
        Yn == new(2)
        Zn == new(3)
    IN  [X |-> Xn, Y |-> Yn, Z |-> Zn,
         atom |-> [f |-> a.f,
                   r1 |-> rtmp,
                   v |-> <<TDiv((Xn - a.r1[1]) * VQ, 2 * DT),
                           TDiv((Yn - a.r1[2]) * VQ, 2 * DT),
                           TDiv((Zn - a.r1[3]) * VQ, 2 * DT), 0>>],
         assert |-> ensemble \notin {NVE, NVT},
         branch |-> "Verlet"]

\* a moveAtoms that takes the Euler branch for the second step as well
MoveBodyEulerAgain(X, Y, Z, atoms, s, iter, ensemble, n) ==
    IF iter <= 2 THEN EulerBody(X, Y, Z, atoms, s, n)
                 ELSE VerletBody(X, Y, Z, atoms, s, ensemble, n)

\* switch (MD_iter_) of moveAtoms, for one index
MoveBody(X, Y, Z, atoms, s, iter, ensemble, n) ==
    IF iter = 1 THEN EulerBody(X, Y, Z, atoms, s, n)
                ELSE VerletBody(X, Y, Z, atoms, s, ensemble, n)

(* --------------------------- the periodic wrap ------------------------ *)

\* one axis of one iteration of the loop of periodic(): the shift applied to
\* the coordinate and to the same lane of r1
WrapShift(x, L) == IF x > L THEN -L ELSE IF x < 0 THEN L ELSE 0

\* a periodic() that moves the coordinates back and leaves r1 where it was
PeriodicBodyKeepR1(X, Y, Z, atoms, L, n) ==
    [X |-> X[n] + WrapShift(X[n], L),
     Y |-> Y[n] + WrapShift(Y[n], L),
     Z |-> Z[n] + WrapShift(Z[n], L),
     atom |-> atoms[n]]

\* one iteration of the loop over n in the lambda of periodic()
PeriodicBody(X, Y, Z, atoms, L, n) ==
    LET dx == WrapShift(X[n], L)
        dy == WrapShift(Y[n], L)
        dz == WrapShift(Z[n], L)
        a == atoms[n]
    IN  [X |-> X[n] + dx, Y |-> Y[n] + dy, Z |-> Z[n] + dz,
         atom |-> [a EXCEPT !.r1 = <<a.r1[1] + dx, a.r1[2] + dy,
                                     a.r1[3] + dz, a.r1[4]>>]]

(* --------------------------- tbb::parallel_for ------------------------ *)

\* the memory of the particles: <<"X", n>> is X_[n], <<"f", n>> is
\* atoms_[n].f, and so on
Slots(NumAtom) == {"X", "Y", "Z", "f", "r1", "v"} \X (1..NumAtom)
SlotValue(X, Y, Z, atoms, sl) ==
    CASE sl[1] = "X" -> X[sl[2]]
      [] sl[1] = "Y" -> Y[sl[2]]
      [] sl[1] = "Z" -> Z[sl[2]]
      [] sl[1] = "f" -> atoms[sl[2]].f
      [] sl[1] = "r1" -> atoms[sl[2]].r1
      [] sl[1] = "v" -> atoms[sl[2]].v

\* the slots the lambda of a phase assigns in its iteration for index n:
\* atoms_[n].f += in calcForces; r1, v (v only in case 1, before the
\* coordinates), X_[n], Y_[n], Z_[n] in moveAtoms; the coordinates and r1 in
\* periodic
LambdaWrites(phase, n) ==
    CASE phase = "calcForces" -> {<<"f", n>>}
      [] phase = "moveAtoms" ->
           {<<"X", n>>, <<"Y", n>>, <<"Z", n>>, <<"r1", n>>, <<"v", n>>}
      [] phase = "periodic" ->
           {<<"X", n>>, <<"Y", n>>, <<"Z", n>>, <<"r1", n>>}
      [] OTHER -> {}

\* the slots it reads: calcForces reads the coordinates of every particle
\* (X_[n] - X_[m] for every m); moveAtoms and periodic read index n only
LambdaReads(phase, n, NumAtom) ==
    CASE phase = "calcForces" ->
           ({"X", "Y", "Z"} \X (1..NumAtom)) \cup {<<"f", n>>}
      [] phase = "moveAtoms" ->
           {<<"X", n>>, <<"Y", n>>, <<"Z", n>>, <<"f", n>>, <<"r1", n>>,
            <<"v", n>>}
      [] phase = "periodic" ->
           {<<"X", n>>, <<"Y", n>>, <<"Z", n>>, <<"r1", n>>}
      [] OTHER -> {}

RECURSIVE SplitOverlap(_, _, _)
\* a splitting whose two halves share the index in the middle
SplitOverlap(lo, hi, d) ==
    IF d = 0 \/ hi - lo <= 1 THEN {<<lo, hi>>}
    ELSE LET mid == lo + (hi - lo) \div 2
         IN  SplitOverlap(lo, mid + 1, d - 1) \cup SplitOverlap(mid, hi, d - 1)

RECURSIVE Split(_, _, _)
\* the sub-ranges of blocked_range(lo, hi) after d rounds of halving
Split(lo, hi, d) ==
    IF d = 0 \/ hi - lo <= 1 THEN {<<lo, hi>>}
    ELSE LET mid == lo + (hi - lo) \div 2
         IN  Split(lo, mid, d - 1) \cup Split(mid, hi, d - 1)

(* -------------------------------- state ------------------------------- *)

VARIABLES
    Nc_, scale_, lat_, periodiclen_, NumAtom_, MD_iter_, t_, ensemble_,
    Tg_, Tc_, Uk_, Up_, Utot_, virial_,
    X_, Y_, Z_, atoms_,
    ndebug,       \* the build: "yes" when BOOST_ASSERT is compiled out, "no"
                  \* when it is not, "unknown" until an assertion is reached
    pc,           \* where the driving thread is: "idle", inside one of the
                  \* three parallel_for of runCalc, or "aborted"
    pool,         \* sub-ranges of the running parallel_for nobody has taken
    cur,          \* cur[w] = <<n, end>>: worker w is at index n of its range
    UpLocal,      \* tbb::combinable Up: one accumulator per worker
    virialLocal,  \* tbb::combinable virial
    s_,           \* the value of s the lambdas of moveAtoms captured
    lastOp,       \* history: the last public member function that returned
    kSteps,       \* history: runCalc calls completed since the last recalc
    kBefore,      \* history: kSteps when the last recalc ran
    runs,         \* history: runCalc calls begun
    sets,         \* history: mutator calls made
    seed,         \* history: the seed of the MyRand of the last MD_initVel
    phases,       \* history: the parallel phases begun by the current call
    entry,        \* history: the particle state on entry to moveAtoms, and
                  \* the positions on entry to periodic
    handled       \* history: handled[n] = the lambda iterations the running
                  \* parallel_for has executed for index n, by branch

prog == <<Nc_, scale_, lat_, periodiclen_, NumAtom_, MD_iter_, t_, ensemble_,
          Tg_, Tc_, Uk_, Up_, Utot_, virial_, X_, Y_, Z_, atoms_>>
ctl == <<ndebug, pc, pool, cur, UpLocal, virialLocal, s_>>
hist == <<lastOp, kSteps, kBefore, runs, sets, seed, phases, entry, handled>>
vars == <<prog, ctl, hist>>

Workers == 1..NWorkers
Idle == <<0, 0>>
NoEntry == [X |-> <<>>, Y |-> <<>>, Z |-> <<>>, atoms |-> <<>>, Tc |-> 0,
            parts |-> 0, mX |-> <<>>, mY |-> <<>>, mZ |-> <<>>]
NoneHandled(NumAtom) == [n \in 1..NumAtom |-> <<>>]

(* ------------------------- reinitialisation --------------------------- *)

\* a recalc that forgets MD_initVel
recalcKeepVel(X, Y, Z, atoms, Nc, lat, sd) ==
    LET pos == MD_initPos(X, Y, Z, Nc, lat)
    IN  /\ t_' = 0
        /\ MD_iter_' = 1
        /\ X_' = pos.X
        /\ Y_' = pos.Y
        /\ Z_' = pos.Z
        /\ NumAtom_' = pos.NumAtom
        /\ atoms_' = atoms
        /\ seed' = sd
        /\ kBefore' = kSteps
        /\ kSteps' = 0

\* recalc(): t_ = 0, MD_iter_ = 1, MD_initPos(), MD_initVel(), applied to
\* the arrays X, Y, Z, atoms and the fields Nc, lat as they stand at the call
recalc(X, Y, Z, atoms, Nc, lat, sd) ==
    LET pos == MD_initPos(X, Y, Z, Nc, lat)
    IN  /\ t_' = 0
        /\ MD_iter_' = 1
        /\ X_' = pos.X
        /\ Y_' = pos.Y
        /\ Z_' = pos.Z
        /\ NumAtom_' = pos.NumAtom
        /\ atoms_' = MD_initVel(atoms, pos.NumAtom, Tg_, sd)
        /\ seed' = sd
        /\ kBefore' = kSteps
        /\ kSteps' = 0

\* a ModLattice that leaves periodiclen_ as it was
ModLatticeStale(X, Y, Z, atoms, Nc, scale, sd) ==
    LET lat == LAT0 * scale
    IN  /\ lat_' = lat
        /\ recalc(X, Y, Z, atoms, Nc, lat, sd)
        /\ periodiclen_' = periodiclen_

\* ModLattice(): lat_ from scale, recalc(), then periodiclen_
ModLattice(X, Y, Z, atoms, Nc, scale, sd) ==
    LET lat == LAT0 * scale
    IN  /\ lat_' = lat
        /\ recalc(X, Y, Z, atoms, Nc, lat, sd)
        /\ periodiclen_' = lat * Nc

\* the constructor: members in declaration order, then the body
Init ==
    /\ Nc_ = FIRSTNC
    /\ scale_ = FIRSTSCALE
    /\ ensemble_ = NVT
    /\ Tg_ = ToTg(FIRSTTEMP)
    /\ lat_ = LAT0 * FIRSTSCALE
    /\ periodiclen_ = LAT0 * FIRSTSCALE * FIRSTNC
    /\ \E g \in 0..MaxGarbage, sd \in 1..MaxSeed :
         LET n0 == FIRSTNC * FIRSTNC * FIRSTNC * 4
             zeros == [m \in 1..n0 |-> 0]
             pos == MD_initPos(zeros, zeros, zeros, FIRSTNC, LAT0 * FIRSTSCALE)
         IN  /\ X_ = pos.X
             /\ Y_ = pos.Y
             /\ Z_ = pos.Z
             /\ NumAtom_ = pos.NumAtom
             /\ atoms_ = MD_initVel([m \in 1..n0 |-> NewAtom(g)], pos.NumAtom,
                                    ToTg(FIRSTTEMP), sd)
             /\ seed = sd
    /\ t_ = 0
    /\ MD_iter_ = 1
    /\ Tc_ = 0
    /\ Uk_ = 0
    /\ Up_ = 0
    /\ Utot_ = 0
    /\ virial_ = 0
    /\ ndebug = "unknown"
    /\ pc = "idle"
    /\ pool = {}
    /\ cur = [w \in Workers |-> Idle]
    /\ UpLocal = [w \in Workers |-> 0]
    /\ virialLocal = [w \in Workers |-> 0]
    /\ s_ = 0
    /\ lastOp = "constructor"
    /\ kSteps = 0
    /\ kBefore = 0
    /\ runs = 0
    /\ sets = 0
    /\ phases = <<>>
    /\ entry = NoEntry
    /\ handled = <<>>

(* ------------------------------ mutators ------------------------------ *)

setEnsemble(ensemble) ==
    /\ pc = "idle"
    /\ sets < MaxSets
    /\ ensemble_' = ensemble
    /\ \E sd \in 1..MaxSeed : recalc(X_, Y_, Z_, atoms_, Nc_, lat_, sd)
    /\ lastOp' = "setEnsemble"
    /\ sets' = sets + 1
    /\ UNCHANGED <<Nc_, scale_, lat_, periodiclen_, Tg_, Tc_, Uk_, Up_, Utot_,
                   virial_, ctl, runs, phases, entry, handled>>

setNc(Nc) ==
    /\ pc = "idle"
    /\ sets < MaxSets
    /\ Nc_' = Nc
    /\ \E g \in 0..MaxGarbage, sd \in 1..MaxSeed :
         ModLattice(resize(X_, Nc * Nc * Nc * 4, 0),
                    resize(Y_, Nc * Nc * Nc * 4, 0),
                    resize(Z_, Nc * Nc * Nc * 4, 0),
                    resize(atoms_, Nc * Nc * Nc * 4, NewAtom(g)),
                    Nc, scale_, sd)
    /\ lastOp' = "setNc"
    /\ sets' = sets + 1
    /\ UNCHANGED <<scale_, ensemble_, Tg_, Tc_, Uk_, Up_, Utot_, virial_, ctl,
                   runs, phases, entry, handled>>

setScale(scale) ==
    /\ pc = "idle"
    /\ sets < MaxSets
    /\ scale_' = scale
    /\ \E sd \in 1..MaxSeed : ModLattice(X_, Y_, Z_, atoms_, Nc_, scale, sd)
    /\ lastOp' = "setScale"
    /\ sets' = sets + 1
    /\ UNCHANGED <<Nc_, ensemble_, Tg_, Tc_, Uk_, Up_, Utot_, virial_, ctl,
                   runs, phases, entry, handled>>

\* a setTgiven that calls recalc() like the other mutators
setTgivenRecalc(Tgiven) ==
    /\ pc = "idle"
    /\ sets < MaxSets
    /\ Tg_' = ToTg(Tgiven)
    /\ \E sd \in 1..MaxSeed :
         LET pos == MD_initPos(X_, Y_, Z_, Nc_, lat_)
         IN  /\ t_' = 0
             /\ MD_iter_' = 1
             /\ X_' = pos.X
             /\ Y_' = pos.Y
             /\ Z_' = pos.Z
             /\ NumAtom_' = pos.NumAtom
             /\ atoms_' = MD_initVel(atoms_, pos.NumAtom, ToTg(Tgiven), sd)
             /\ seed' = sd
             /\ kBefore' = kSteps
             /\ kSteps' = 0
    /\ lastOp' = "setTgiven"
    /\ sets' = sets + 1
    /\ UNCHANGED <<Nc_, scale_, lat_, periodiclen_, ensemble_, Tc_, Uk_, Up_,
                   Utot_, virial_, ctl, runs, phases, entry, handled>>

\* setTgiven: assigns Tg_ and nothing else
setTgiven(Tgiven) ==
    /\ pc = "idle"
    /\ sets < MaxSets
    /\ Tg_' = ToTg(Tgiven)
    /\ lastOp' = "setTgiven"
    /\ sets' = sets + 1
    /\ UNCHANGED <<Nc_, scale_, lat_, periodiclen_, NumAtom_, MD_iter_, t_,
                   ensemble_, Tc_, Uk_, Up_, Utot_, virial_, X_, Y_, Z_, atoms_,
                   ctl, kSteps, kBefore, runs, seed, phases, entry,
                   handled>>

(* -------------------------------- runCalc ----------------------------- *)

\* a parallel_for that returns once every sub-range is handed out
JoinedEarly == pool = {}

\* parallel_for has returned: every sub-range was taken and finished
Joined == pool = {} /\ \A w \in Workers : cur[w] = Idle

\* the ranges worker w may work on next: the rest of its own, or, when it has
\* none, any range of the pool.  <<n, end, pool left>>
Takes(w) ==
    IF cur[w] # Idle THEN {<<cur[w][1], cur[w][2], pool>>}
    ELSE {<<c[1], c[2], pool \ {c}>> : c \in pool}

\* worker w has done index tk[1] of the range it holds
Advance(w, tk) ==
    /\ cur' = [cur EXCEPT ![w] = IF tk[1] + 1 >= tk[2] THEN Idle
                                 ELSE <<tk[1] + 1, tk[2]>>]
    /\ pool' = tk[3]

\* parallel_for(blocked_range(0, NumAtom_), ...) starts
Fork == \E d \in 0..MaxSplit : pool' = Split(1, NumAtom_ + 1, d)

\* a calcForces that does not zero the forces before it accumulates
ZeroForcesNot(atoms, NumAtom) == atoms

\* for (n = 0; n < NumAtom_; n++) atoms_[n].f = Eigen::Vector4d::Zero();
ZeroForces(atoms, NumAtom) ==
    [n \in 1..Len(atoms) |->
        IF n <= NumAtom THEN [atoms[n] EXCEPT !.f = Zero4] ELSE atoms[n]]

\* the fields no phase of runCalc assigns
fixed == <<Nc_, scale_, lat_, periodiclen_, NumAtom_, ensemble_, Tg_>>

\* runCalc is called (from a state in which every pair distance is non-zero,
\* so that every force is a number); calcForces zeroes the forces and Up_
\* and starts its parallel_for
BeginForces ==
    /\ pc = "idle"
    /\ MD_iter_ <= MaxIter
    /\ NumAtom_ <= MaxStepAtoms
    /\ runs < MaxRuns
    /\ ~Coincide(X_, Y_, Z_, periodiclen_, NumAtom_)
    /\ runs' = runs + 1
    /\ atoms_' = ZeroForces(atoms_, NumAtom_)
    /\ Up_' = 0
    /\ UpLocal' = [w \in Workers |-> 0]
    /\ virialLocal' = [w \in Workers |-> 0]
    /\ Fork
    /\ pc' = "calcForces"
    /\ phases' = <<"calcForces">>
    /\ handled' = NoneHandled(NumAtom_)
    /\ UNCHANGED <<fixed, MD_iter_, t_, Tc_, Uk_, Utot_, virial_, X_, Y_, Z_,
                   ndebug, cur, s_, lastOp, kSteps, kBefore, sets, seed, entry>>

\* a worker runs the lambda of calcForces for one index
ForceStep(w) ==
    /\ pc = "calcForces"
    /\ \E tk \in Takes(w) :
         LET n == tk[1]
             r == ForceBody(X_, Y_, Z_, periodiclen_, NumAtom_, n)
         IN  /\ atoms_' = [atoms_ EXCEPT ![n].f =
                             VAdd(@, <<r[1], r[2], r[3], 0>>)]
             /\ UpLocal' = [UpLocal EXCEPT ![w] = @ + r[4]]
             /\ virialLocal' = [virialLocal EXCEPT ![w] = @ + r[5]]
             /\ Advance(w, tk)
             /\ handled' = [handled EXCEPT ![n] = Append(@, "force")]
    /\ UNCHANGED <<fixed, MD_iter_, t_, Tc_, Uk_, Up_, Utot_, virial_, X_, Y_,
                   Z_, ndebug, pc, s_, lastOp, kSteps, kBefore, runs, sets,
                   seed, phases, entry>>

\* calcForces combines the accumulators and returns (they go out of scope);
\* moveAtoms computes the energies, the temperature and s, and starts its
\* parallel_for
BeginMove ==
    /\ pc = "calcForces"
    /\ Joined
    /\ LET Up == SumTo(UpLocal, NWorkers)
           Uk == TDiv(SumTo([n \in 1..NumAtom_ |-> squaredNorm(atoms_[n].v)],
                            NumAtom_), 2)
           Tc == TDiv(2 * Uk, 3 * NumAtom_)
       IN  /\ Up_' = Up
           /\ virial_' = SumTo(virialLocal, NWorkers)
           /\ Uk_' = Uk
           /\ Utot_' = Uk + Up
           /\ Tc_' = Tc
           /\ s_' = SFactor(Tg_, Tc, ALPHA_NUM, ALPHA_DEN)
           /\ entry' = [X |-> X_, Y |-> Y_, Z |-> Z_, atoms |-> atoms_,
                        Tc |-> Tc,
                        parts |-> Cardinality({w \in Workers :
                                                 UpLocal[w] # 0}),
                        mX |-> <<>>, mY |-> <<>>, mZ |-> <<>>]
    /\ UpLocal' = [w \in Workers |-> 0]
    /\ virialLocal' = [w \in Workers |-> 0]
    /\ Fork
    /\ pc' = "moveAtoms"
    /\ phases' = Append(phases, "moveAtoms")
    /\ handled' = NoneHandled(NumAtom_)
    /\ UNCHANGED <<fixed, MD_iter_, t_, X_, Y_, Z_, atoms_, ndebug, cur,
                   lastOp, kSteps, kBefore, runs, sets,
                   seed>>

\* a worker runs the lambda of moveAtoms for one index; a failed BOOST_ASSERT
\* aborts the process unless the build compiles it out
MoveStep(w) ==
    /\ pc = "moveAtoms"
    /\ \E tk \in Takes(w) :
         LET n == tk[1]
             r == MoveBody(X_, Y_, Z_, atoms_, s_, MD_iter_, ensemble_, n)
         IN  \E nd \in (IF ~r.assert \/ ndebug # "unknown" THEN {ndebug}
                        ELSE {"yes", "no"}) :
               /\ ndebug' = nd
               /\ IF r.assert /\ nd = "no"
                  THEN /\ pc' = "aborted"
                       /\ UNCHANGED <<X_, Y_, Z_, atoms_, pool, cur, handled>>
                  ELSE /\ X_' = [X_ EXCEPT ![n] = r.X]
                       /\ Y_' = [Y_ EXCEPT ![n] = r.Y]
                       /\ Z_' = [Z_ EXCEPT ![n] = r.Z]
                       /\ atoms_' = [atoms_ EXCEPT ![n] = r.atom]
                       /\ Advance(w, tk)
                       /\ handled' = [handled EXCEPT
                                        ![n] = Append(@, r.branch)]
                       /\ pc' = pc
    /\ UNCHANGED <<fixed, MD_iter_, t_, Tc_, Uk_, Up_, Utot_, virial_, UpLocal,
                   virialLocal, s_, lastOp, kSteps, kBefore, runs, sets, seed,
                   phases, entry>>

\* moveAtoms returns (s goes out of scope); periodic starts its parallel_for
BeginPeriodic ==
    /\ pc = "moveAtoms"
    /\ Joined
    /\ s_' = 0
    /\ Fork
    /\ pc' = "periodic"
    /\ phases' = Append(phases, "periodic")
    /\ entry' = [entry EXCEPT !.parts = 0, !.mX = X_, !.mY = Y_, !.mZ = Z_]
    /\ handled' = NoneHandled(NumAtom_)
    /\ UNCHANGED <<prog, ndebug, cur, UpLocal, virialLocal, lastOp, kSteps,
                   kBefore, runs, sets, seed>>

\* a worker runs the lambda of periodic for one index
PeriodicStep(w) ==
    /\ pc = "periodic"
    /\ \E tk \in Takes(w) :
         LET n == tk[1]
             r == PeriodicBody(X_, Y_, Z_, atoms_, periodiclen_, n)
         IN  /\ X_' = [X_ EXCEPT ![n] = r.X]
             /\ Y_' = [Y_ EXCEPT ![n] = r.Y]
             /\ Z_' = [Z_ EXCEPT ![n] = r.Z]
             /\ atoms_' = [atoms_ EXCEPT ![n] = r.atom]
             /\ Advance(w, tk)
             /\ handled' = [handled EXCEPT ![n] = Append(@, "wrap")]
    /\ UNCHANGED <<fixed, MD_iter_, t_, Tc_, Uk_, Up_, Utot_, virial_, ndebug,
                   pc, UpLocal, virialLocal, s_, lastOp, kSteps, kBefore, runs,
                   sets, seed, phases, entry>>

\* a runCalc that counts the step before it computes the time
TickCountFirst ==
    /\ MD_iter_' = MD_iter_ + 1
    /\ t_' = (MD_iter_ + 1) * DT

\* t_ = static_cast<double>(MD_iter_) * DT; MD_iter_++;
Tick ==
    /\ t_' = MD_iter_ * DT
    /\ MD_iter_' = MD_iter_ + 1

\* periodic returns; runCalc advances the time and the step count and returns
EndRun ==
    /\ pc = "periodic"
    /\ Joined
    /\ Tick
    /\ pc' = "idle"
    /\ lastOp' = "runCalc"
    /\ kSteps' = kSteps + 1
    /\ handled' = <<>>
    /\ UNCHANGED <<fixed, Tc_, Uk_, Up_, Utot_, virial_, X_, Y_, Z_, atoms_,
                   ndebug, pool, cur, UpLocal, virialLocal, s_, kBefore, runs,
                   sets, seed, phases, entry>>

Next ==
    \/ \E e \in 0..MaxEnsemble : setEnsemble(e)
    \/ \E n \in 1..MaxNc : setNc(n)
    \/ \E sc \in 1..MaxScale : setScale(sc)
    \/ \E k \in 1..MaxTk : setTgiven(TgivenOf(k))
    \/ BeginForces
    \/ \E w \in Workers : ForceStep(w)
    \/ BeginMove
    \/ \E w \in Workers : MoveStep(w)
    \/ BeginPeriodic
    \/ \E w \in Workers : PeriodicStep(w)
    \/ EndRun

Spec == Init /\ [][Next]_vars

(* ============================== properties ============================ *)

ThreePhases == <<"calcForces", "moveAtoms", "periodic">>
AllReturned == pool = {} /\ \A w \in Workers : cur[w] = Idle
Reinitializers == {"setNc", "setScale", "setEnsemble"}
Velocities(atoms, n) == [m \in 1..n |-> atoms[m].v]

(* ---- C1 ---- *)

\* the phases the call in progress (or the last call) has begun, against
\* the place of the driving thread
C1_Order ==
    /\ pc = "calcForces" => phases = SubSeq(ThreePhases, 1, 1)
    /\ pc = "moveAtoms" => phases = SubSeq(ThreePhases, 1, 2)
    /\ pc = "periodic" => phases = ThreePhases
    /\ (pc = "idle" /\ runs > 0) => phases = ThreePhases

\* a step that enters a phase, or returns from runCalc, is taken only when
\* no sub-range of the running parallel_for is left and no worker is in one
C1_PhaseChange ==
    (pc' # pc /\ pc' # "aborted") => AllReturned

\* C1: every runCalc runs calcForces, then moveAtoms, then periodic, once
\* each and in that order, and a phase begins only after every worker of the
\* phase before it has finished, so that no two phases overlap.
C1_PhasesInOrder == []C1_Order /\ [][C1_PhaseChange]_vars

\* two calls of runCalc have completed
C1_Witness == pc = "idle" /\ lastOp = "runCalc" /\ kSteps = 2

(* ---- C2 ---- *)

\* C2: after k completed runCalc calls since the construction or the last
\* reinitialization (setTgiven calls interleaved or not), MD_iter_ is k + 1
\* and t_ is k * DT; in particular MD_iter_ is 1 after each of the two.
C2_StepIndexAndTime == MD_iter_ = kSteps + 1 /\ t_ = kSteps * DT

\* setTgiven was called after a step that followed a reinitialization that
\* followed a step
C2_Witness == lastOp = "setTgiven" /\ kSteps = 1 /\ kBefore = 1

(* ---- C3 ---- *)

\* C3: when setNc, setScale or setEnsemble returns, in whatever state it was
\* called, MD_iter_ is 1, t_ is 0, and the positions and velocities are the
\* ones MD_initPos and MD_initVel produce for the current Nc_, lat_ and Tg_.
C3_FullReinit ==
    (pc = "idle" /\ lastOp \in Reinitializers) =>
        LET n == 4 * Nc_ * Nc_ * Nc_
            blank == [m \in 1..n |-> 0]
            pos == MD_initPos(blank, blank, blank, Nc_, lat_)
            fresh == MD_initVel([m \in 1..n |-> NewAtom(0)], n, Tg_, seed)
        IN  /\ MD_iter_ = 1
            /\ t_ = 0
            /\ NumAtom_ = n
            /\ X_ = pos.X
            /\ Y_ = pos.Y
            /\ Z_ = pos.Z
            /\ Velocities(atoms_, n) = Velocities(fresh, n)

\* one of the three was called after a step, with a temperature other than
\* the constructor's
C3_Witness ==
    /\ pc = "idle"
    /\ lastOp \in Reinitializers
    /\ kBefore > 0
    /\ Tg_ # ToTg(FIRSTTEMP)

(* ---- C4 ---- *)

\* C4: a call of setTgiven changes Tg_ only: MD_iter_, t_, NumAtom_, Nc_,
\* lat_, periodiclen_, ensemble_ and every atom's position, previous
\* position, velocity and force are as before the call.
C4_TgivenFrame ==
    [][(lastOp' = "setTgiven" /\ sets' # sets) =>
          UNCHANGED <<MD_iter_, t_, NumAtom_, Nc_, scale_, lat_, periodiclen_,
                      ensemble_, X_, Y_, Z_, atoms_>>]_vars

\* setTgiven has changed the temperature after a step
C4_Witness ==
    lastOp = "setTgiven" /\ kSteps > 0 /\ Tg_ # ToTg(FIRSTTEMP)

(* ---- C5 ---- *)

\* C5: in every state NumAtom_ is 4 Nc_^3, and X_, Y_, Z_ and atoms_ all have
\* exactly NumAtom_ elements.
C5_ParticleCount ==
    /\ NumAtom_ = 4 * Nc_ * Nc_ * Nc_
    /\ Len(X_) = NumAtom_
    /\ Len(Y_) = NumAtom_
    /\ Len(Z_) = NumAtom_
    /\ Len(atoms_) = NumAtom_

\* the supercell was made smaller than it had been
C5_Witness == lastOp = "setNc" /\ sets = 2 /\ Nc_ = 1

(* ---- C6 ---- *)

\* C6: in every state, and so whenever calcForces reads it, periodiclen_ is
\* lat_ * Nc_ with lat_ the base lattice constant times the current scale_.
C6_PeriodicLength == periodiclen_ = lat_ * Nc_ /\ lat_ = LAT0 * scale_

\* forces are being evaluated after the scale was changed
C6_Witness ==
    /\ pc = "calcForces"
    /\ scale_ # FIRSTSCALE
    /\ \E w \in Workers : cur[w] # Idle

(* ---- C7 ---- *)

\* periodic() applied once more to atom n of the current state changes
\* neither its position nor its previous position
WrapIsNoOp(n) ==
    LET r == PeriodicBody(X_, Y_, Z_, atoms_, periodiclen_, n)
    IN  /\ r.X = X_[n]
        /\ r.Y = Y_[n]
        /\ r.Z = Z_[n]
        /\ r.atom.r1 = atoms_[n].r1

\* C7: periodic() is idempotent: applied a second time, with no integration
\* in between, to the state the periodic() of a step has left, it changes no
\* atom's position or previous position.
C7_WrapIdempotent ==
    (pc = "periodic" /\ AllReturned) => \A n \in 1..NumAtom_ : WrapIsNoOp(n)

(* ---- C8 ---- *)

\* C8: no runCalc whose moveAtoms ran with an ensemble_ that is neither NVE
\* nor NVT completes as a normal step: neither its first step nor a later
\* one reaches periodic() or counts the step.
C8_InvalidEnsembleIsFatal ==
    (pc = "periodic" \/ (pc = "idle" /\ lastOp = "runCalc")) =>
        ensemble_ \in {NVE, NVT}

(* ---- C9 ---- *)

\* the values of s that other target temperatures and other damping
\* coefficients give for the temperature Tc
OtherS(Tc) ==
    {SFactor(ToTg(TgivenOf(k)), Tc, an, ALPHA_DEN) :
        k \in 1..MaxTk, an \in {ALPHA_NUM, ALPHA_NUM + 1}}

\* C9: with ensemble_ = NVE the outcome of moveAtoms (positions, previous
\* positions, velocities) is the same for every value of s, that is, for
\* every Tgiven and every ALPHA, on the first step and on the later ones.
C9_NveIgnoresS ==
    (pc = "moveAtoms" /\ AllReturned /\ ensemble_ = NVE) =>
        \A n \in 1..NumAtom_ : \A s \in OtherS(entry.Tc) :
            LET r == MoveBody(entry.X, entry.Y, entry.Z, entry.atoms, s,
                              MD_iter_, ensemble_, n)
            IN  /\ X_[n] = r.X
                /\ Y_[n] = r.Y
                /\ Z_[n] = r.Z
                /\ atoms_[n] = r.atom

(* ---- C10 ---- *)

VelocitySum == VSumTo(Velocities(atoms_, NumAtom_), NumAtom_)
JustInitialized == pc = "idle" /\ kSteps = 0 /\ lastOp # "setTgiven"
Abs(x) == IF x < 0 THEN -x ELSE x

\* C10 as stated: right after the constructor and after every
\* reinitialization the sum of the velocities of all atoms is exactly the
\* zero vector.
C10_VelocitySumZero == JustInitialized => VelocitySum = Zero4

\* C10: right after the constructor and after every reinitialization the sum
\* of the velocities of all atoms is zero up to the rounding of the division
\* by NumAtom_: each component is smaller in magnitude than NumAtom_ units
\* of the velocity grid.
C10_VelocitySumRounding ==
    JustInitialized =>
        \A c \in 1..4 : Abs(VelocitySum[c]) < NumAtom_

\* a reinitialization after a step has left a sum that is not zero
C10_Witness ==
    /\ JustInitialized
    /\ lastOp \in Reinitializers
    /\ kBefore > 0
    /\ VelocitySum # Zero4

(* C11: the integration phase takes the Euler branch exactly when the running
   runCalc is the first one since construction or the last reinitialisation,
   which is exactly when MD_iter_ is 1 on entry; every other step, the first
   one after a setTgiven between two steps included, takes the Verlet
   branch. *)
C11_EulerOnlyFirst ==
    pc = "moveAtoms" =>
        /\ (MD_iter_ = 1) <=> (kSteps = 0)
        /\ \A n \in 1..NumAtom_ : \A i \in 1..Len(handled[n]) :
              handled[n][i] = IF kSteps = 0 THEN "Euler" ELSE "Verlet"
C11_Witness ==
    /\ pc = "moveAtoms"
    /\ lastOp = "setTgiven"
    /\ kSteps = 1
    /\ \A n \in 1..NumAtom_ : handled[n] = <<"Verlet">>

(* C12: every iteration of periodic() adds to each coordinate of its particle
   -periodiclen_ when the coordinate is above periodiclen_, +periodiclen_
   when it is below 0 and nothing otherwise, adds the same amount to the same
   lane of r1, so that coordinate minus r1 is what it was, and leaves the
   velocity and the force of the particle alone. *)
C12_ShiftOf(x) ==
    IF x > periodiclen_ THEN 0 - periodiclen_
    ELSE IF x < 0 THEN periodiclen_ ELSE 0
C12_AxisKept(x, xn, r, rn) ==
    /\ xn - x = C12_ShiftOf(x)
    /\ rn - r = C12_ShiftOf(x)
    /\ xn - rn = x - r
C12_Step ==
    \A n \in 1..NumAtom_ :
        (pc = "periodic" /\ pc' = "periodic" /\ handled'[n] # handled[n]) =>
            /\ C12_AxisKept(X_[n], X_'[n], atoms_[n].r1[1], atoms_'[n].r1[1])
            /\ C12_AxisKept(Y_[n], Y_'[n], atoms_[n].r1[2], atoms_'[n].r1[2])
            /\ C12_AxisKept(Z_[n], Z_'[n], atoms_[n].r1[3], atoms_'[n].r1[3])
            /\ atoms_'[n].v = atoms_[n].v
            /\ atoms_'[n].f = atoms_[n].f
C12_WrapKeepsDisplacement == [][C12_Step]_vars
C12_Witness ==
    /\ pc = "periodic"
    /\ \E n \in 1..NumAtom_ :
         /\ handled[n] = <<"wrap">>
         /\ X_[n] = entry.mX[n] - periodiclen_
         /\ Y_[n] = entry.mY[n] + periodiclen_
         /\ atoms_[n].r1[1] = entry.X[n] - periodiclen_
         /\ atoms_[n].r1[2] = entry.Y[n] + periodiclen_

(* C13: in each of the three parallel phases every index of
   0..NumAtom_ - 1 is handled by exactly one lambda iteration: at any moment
   an index is either already handled once or lies in exactly one range that
   is waiting or held by a worker.  No slot of a particle that one worker
   writes is read or written by a different worker of the same phase, and an
   iteration for index n changes nothing but the slots its lambda writes:
   the force of n in calcForces (the coordinates it reads are written by
   nobody), the slots of index n alone in moveAtoms and periodic. *)
C13_Phases == {"calcForces", "moveAtoms", "periodic"}
C13_Holds(c, n) == c # Idle /\ c[1] <= n /\ n < c[2]
C13_Owners(n) ==
    Cardinality({c \in pool : C13_Holds(c, n)})
        + Cardinality({w \in Workers : C13_Holds(cur[w], n)})
        + Len(handled[n])
C13_Accesses(w) ==
    UNION {LambdaWrites(pc, n) \cup LambdaReads(pc, n, NumAtom_) :
             n \in {k \in 1..NumAtom_ : C13_Holds(cur[w], k)}}
C13_WritesOf(w) ==
    UNION {LambdaWrites(pc, n) :
             n \in {k \in 1..NumAtom_ : C13_Holds(cur[w], k)}}
C13_OnceAndApart ==
    pc \in C13_Phases =>
        /\ \A n \in 1..NumAtom_ : C13_Owners(n) = 1
        /\ \A w1 \in Workers, w2 \in Workers :
              w1 # w2 => C13_WritesOf(w1) \cap C13_Accesses(w2) = {}
C13_Step ==
    (pc \in C13_Phases /\ pc' = pc /\ handled' # handled) =>
        \E n \in 1..NumAtom_ :
            /\ \A m \in 1..NumAtom_ : m # n => handled'[m] = handled[m]
            /\ \A sl \in Slots(NumAtom_) \ LambdaWrites(pc, n) :
                  SlotValue(X_', Y_', Z_', atoms_', sl)
                      = SlotValue(X_, Y_, Z_, atoms_, sl)
C13_NoSharedSlot == []C13_OnceAndApart /\ [][C13_Step]_vars
C13_Witness ==
    /\ pc = "calcForces"
    /\ \A w \in Workers : cur[w] # Idle
    /\ \E n \in 1..NumAtom_, m \in 1..NumAtom_ :
         /\ n # m
         /\ handled[n] = <<"force">>
         /\ handled[m] = <<"force">>
         /\ atoms_[n].f # Zero4
         /\ atoms_[m].f # Zero4

(* C14: when calcForces has returned, atoms_[n].f of every particle, Up_ and
   virial_ are the sums a single thread would form over the terms of this
   call alone, that is over every m, every image (i, j, k) within ncp_ cells,
   the self term excluded and the cutoff applied, at the coordinates of the
   call: for every splitting of the range and every interleaving of the
   workers, and whatever the forces, Up_ and virial_ were before the call. *)
\* what the loops over m, i, j, k of one thread add for particle n
C14_Ref(n) == ForceBody(X_, Y_, Z_, periodiclen_, NumAtom_, n)
C14_ForcesReturned ==
    pc = "moveAtoms" /\ \A n \in 1..NumAtom_ : handled[n] = <<>>
C15_EntryPos(n) == <<entry.X[n], entry.Y[n], entry.Z[n], 0>>
C15_VerletVelocity(n, X, Y, Z) ==
    <<TDiv((X[n] - entry.atoms[n].r1[1]) * VQ, 2 * DT),
      TDiv((Y[n] - entry.atoms[n].r1[2]) * VQ, 2 * DT),
      TDiv((Z[n] - entry.atoms[n].r1[3]) * VQ, 2 * DT), 0>>
C15_AfterMove(n) ==
    /\ atoms_[n].r1 = C15_EntryPos(n)
    /\ kSteps > 0 => atoms_[n].v = C15_VerletVelocity(n, X_, Y_, Z_)
C15_AfterWrap(n) ==
    /\ atoms_[n].r1 = VAdd(C15_EntryPos(n),
                           <<X_[n] - entry.mX[n], Y_[n] - entry.mY[n],
                             Z_[n] - entry.mZ[n], 0>>)
    /\ kSteps > 0 =>
          atoms_[n].v = C15_VerletVelocity(n, entry.mX, entry.mY, entry.mZ)
C15_PreviousPosition ==
    /\ pc = "moveAtoms" =>
          \A n \in 1..NumAtom_ : handled[n] # <<>> => C15_AfterMove(n)
    /\ pc = "periodic" =>
          \A n \in 1..NumAtom_ :
              /\ handled[n] = <<>> => C15_AfterMove(n)
              /\ handled[n] # <<>> => C15_AfterWrap(n)
C15_Witness ==
    /\ pc = "periodic"
    /\ AllReturned
    /\ kSteps = 1
    /\ ensemble_ = NVT
    /\ \E n \in 1..NumAtom_ :
         /\ X_[n] # entry.mX[n]
         /\ entry.mX[n] # entry.X[n]
         /\ atoms_[n].v # Zero4
         /\ atoms_[n].r1[1] = entry.X[n] + X_[n] - entry.mX[n]

====
